---- MODULE Spec2Model ----
(***************************************************************************)
(* State-machine model of the AutoTrader of src/autotrader.py: the         *)
(* history buffer, the signal engine, the quote model and the order and    *)
(* inventory controller, driven by the events of the market gateway.       *)
(*                                                                         *)
(* A Python float is modelled as <<n, d, e>>: the rational n/d (d > 0,     *)
(* lowest terms) that exact arithmetic gives, and a flag e that is 0 when  *)
(* the float is known to be exactly n/d and 1 when rounding may have moved *)
(* it off n/d.  A comparison or a floor whose exact operands differ has    *)
(* the exact outcome; one whose exact operands coincide has the exact      *)
(* outcome when every operand is exact, and either outcome otherwise, so   *)
(* the operators that compare floats yield the SET of outcomes.  The       *)
(* correlation coefficient, the standard errors and the standard           *)
(* deviations, which the code uses through their absolute values only, are *)
(* carried as their squares.                                               *)
(***************************************************************************)
EXTENDS Integers, Sequences, FiniteSets, TLC

\* ---------------------------------------------------------------- constants

LOT_SIZE == 10
POSITION_LIMIT == 93
TICK_SIZE_IN_CENTS == 100
\* ready_trader_go: MINIMUM_BID = 1, MAXIMUM_ASK = 2 ** 31 - 1
MINIMUM_BID == 1
MAXIMUM_ASK == 2147483647
MIN_BID_NEAREST_TICK == ((MINIMUM_BID + TICK_SIZE_IN_CENTS) \div TICK_SIZE_IN_CENTS) * TICK_SIZE_IN_CENTS
MAX_ASK_NEAREST_TICK == (MAXIMUM_ASK \div TICK_SIZE_IN_CENTS) * TICK_SIZE_IN_CENTS
\* ready_trader_go: Instrument.FUTURE = 0, Instrument.ETF = 1
FUTURE == 0
ETF == 1
\* the series keep the most recent 15 samples
HistoryCap == 15
\* the RSI needs more than 10 mid samples
RsiPeriod == 10

\* ---------------------------------------------------------------- rationals

Abs(n) == IF n < 0 THEN -n ELSE n

Min(a, b) == IF a < b THEN a ELSE b

Max(a, b) == IF a > b THEN a ELSE b

RECURSIVE GCD(_, _)
GCD(a, b) == IF b = 0 THEN a ELSE GCD(b, a % b)

RECURSIVE PowerOfTwo(_)
PowerOfTwo(d) == d = 1 \/ (d % 2 = 0 /\ PowerOfTwo(d \div 2))

\* the float of the exact value n/d; e = 1 when an operand was inexact; a
\* value that is no dyadic fraction has no exact float
F(n, d, e) ==
    LET s == IF d < 0 THEN -1 ELSE 1
        g == GCD(Abs(n), Abs(d))
    IN  <<(s * n) \div g, (s * d) \div g,
          IF e = 1 \/ ~PowerOfTwo((s * d) \div g) THEN 1 ELSE 0>>

\* float(n) of an int
FInt(n) == <<n, 1, 0>>

FAdd(a, b) ==
    LET g == GCD(a[2], b[2])
    IN  F(a[1] * (b[2] \div g) + b[1] * (a[2] \div g), (a[2] \div g) * b[2], Max(a[3], b[3]))

FSub(a, b) == FAdd(a, <<-b[1], b[2], b[3]>>)

\* the factors are reduced crosswise before they are multiplied; an exact
\* zero times anything is an exact zero
FMul(a, b) ==
    IF a = FInt(0) \/ b = FInt(0) THEN FInt(0)
    ELSE LET x == F(a[1], b[2], 0)
             y == F(b[1], a[2], 0)
         IN  F(x[1] * y[1], x[2] * y[2], Max(a[3], b[3]))

\* a / b for b /= 0
FDiv(a, b) ==
    IF a = FInt(0) THEN FInt(0)
    ELSE LET x == F(a[1], b[1], 0)
             y == F(b[2], a[2], 0)
         IN  F(x[1] * y[1], x[2] * y[2], Max(a[3], b[3]))

\* a/b <= c/d for b, d > 0, by the continued fractions of the two (no products)
RECURSIVE FracLe(_, _, _, _)
FracLe(a, b, c, d) ==
    IF a \div b /= c \div d THEN a \div b < c \div d
    ELSE IF a % b = 0 THEN TRUE
    ELSE IF c % d = 0 THEN FALSE
    ELSE FracLe(d, c % d, b, a % b)

\* the exact values of a and b coincide
Same(a, b) == a[1] = b[1] /\ a[2] = b[2]

\* both floats are exact
Exact(a, b) == a[3] = 0 /\ b[3] = 0

\* the outcomes of a <= b
Le(a, b) ==
    IF ~Same(a, b) THEN {FracLe(a[1], a[2], b[1], b[2])}
    ELSE IF Exact(a, b) THEN {TRUE} ELSE BOOLEAN

\* the outcomes of a < b
Lt(a, b) ==
    IF ~Same(a, b) THEN {FracLe(a[1], a[2], b[1], b[2])}
    ELSE IF Exact(a, b) THEN {FALSE} ELSE BOOLEAN

\* the outcomes of abs(s) <= x, where s2 is the square of s
RootLe(s2, x) ==
    IF x[1] < 0 THEN {FALSE} ELSE Le(s2, FMul(x, x))

\* the outcomes of int(a // TICK_SIZE_IN_CENTS * TICK_SIZE_IN_CENTS): a float
\* that rounding left just below a tick floors to the tick below
TickFloor(a) ==
    LET ticks == a[1] \div (a[2] * TICK_SIZE_IN_CENTS)
    IN  IF a[3] = 1 /\ a[2] = 1 /\ a[1] % TICK_SIZE_IN_CENTS = 0
        THEN {ticks * TICK_SIZE_IN_CENTS, (ticks - 1) * TICK_SIZE_IN_CENTS}
        ELSE {ticks * TICK_SIZE_IN_CENTS}

\* ---------------------------------------------------------------- sequences

RECURSIVE SumSeq(_)
SumSeq(s) == IF s = <<>> THEN 0 ELSE Head(s) + SumSeq(Tail(s))

\* s[-k:] of Python
LastN(s, k) == IF Len(s) > k THEN SubSeq(s, Len(s) - k + 1, Len(s)) ELSE s

\* s[i] of Python for a negative index i
NegIdx(s, i) == s[Len(s) + i + 1]

\* s[i] of Python for an index i >= 0
Idx(s, i) == s[i + 1]

\* ---------------------------------------------------------------- history buffer

\* an order book is [instrument, ask_prices, ask_volumes, bid_prices,
\* bid_volumes], each list holding the five best levels, index 0 the touch

\* sum(volumes[1:4])
LevelVolume(volumes) == Idx(volumes, 1) + Idx(volumes, 2) + Idx(volumes, 3)

\* the loop of lines 94-96: sum of price * volume over the levels 1..3
LevelValue(prices, volumes) ==
    Idx(prices, 1) * Idx(volumes, 1) + Idx(prices, 2) * Idx(volumes, 2)
        + Idx(prices, 3) * Idx(volumes, 3)

\* the integer division of line 97 or 98 divides by zero
VwapFault(book) ==
    LevelVolume(book.bid_volumes) = 0 \/ LevelVolume(book.ask_volumes) = 0

Vbid(book) == LevelValue(book.bid_prices, book.bid_volumes) \div LevelVolume(book.bid_volumes)

Vask(book) == LevelValue(book.ask_prices, book.ask_volumes) \div LevelVolume(book.ask_volumes)

Vmid(book) == (Vbid(book) + Vask(book)) \div 2

\* a variant that drops the newest sample of a full series
AppendedToRoom(history, sample) ==
    IF Len(history) < HistoryCap THEN Append(history, sample) ELSE history

\* append, then keep the most recent 15 samples
Appended(history, sample) == LastN(Append(history, sample), HistoryCap)

\* ---------------------------------------------------------------- RSI

\* the sentinel -1 of an unseeded average
Unseeded == FInt(-1)

\* gtotal of lines 120-127: the sum over i in range(-11, -1) of the positive
\* differences vmid - history_mid[i]
RECURSIVE SeedGainTotal(_, _, _)
SeedGainTotal(mid, vmid, i) ==
    IF i >= -1 THEN 0
    ELSE LET diff == vmid - NegIdx(mid, i)
         IN  (IF diff > 0 THEN diff ELSE 0) + SeedGainTotal(mid, vmid, i + 1)

\* ltotal of lines 120-127
RECURSIVE SeedLossTotal(_, _, _)
SeedLossTotal(mid, vmid, i) ==
    IF i >= -1 THEN 0
    ELSE LET diff == vmid - NegIdx(mid, i)
         IN  (IF diff > 0 THEN 0 ELSE Abs(diff)) + SeedLossTotal(mid, vmid, i + 1)

\* self.gain after lines 118-139; mid is history_mid after the append
NewGain(mid, vmid, g) ==
    IF Len(mid) > RsiPeriod
    THEN IF g = Unseeded
         THEN FDiv(FInt(SeedGainTotal(mid, vmid, -11)), FInt(10))
         ELSE LET diff == vmid - NegIdx(mid, -2)
              IN  FDiv(FAdd(FMul(g, FInt(9)), FInt(IF diff > 0 THEN diff ELSE 0)), FInt(10))
    ELSE g

\* self.loss after lines 118-139 (the seeding is keyed on self.gain alone)
NewLoss(mid, vmid, g, l) ==
    IF Len(mid) > RsiPeriod
    THEN IF g = Unseeded
         THEN FDiv(FInt(SeedLossTotal(mid, vmid, -11)), FInt(10))
         ELSE LET diff == vmid - NegIdx(mid, -2)
              IN  FDiv(FAdd(FMul(l, FInt(9)), FInt(IF diff > 0 THEN 0 ELSE Abs(diff))), FInt(10))
    ELSE l

\* rs = self.gain / self.loss of line 140 divides by zero (a loss is a sum of
\* non-negative terms: it is zero only if the float is)
RsiFault(mid, l) == Len(mid) > RsiPeriod /\ l[1] = 0

\* rsi of lines 111 and 140-141: 100 - 100 / (1 + gain / loss), -1 while no
\* more than 10 samples are held
Rsi(mid, g, l) ==
    IF Len(mid) > RsiPeriod
    THEN FSub(FInt(100), FDiv(FInt(100), FAdd(FInt(1), FDiv(g, l))))
    ELSE FInt(-1)

\* the outcomes <<over_bought_rsi, over_sold_rsi>> of lines 109-110 and 142-145
RsiFlags(mid, rsi) ==
    IF Len(mid) > RsiPeriod
    THEN {<<over, ~over /\ under>> : over \in Lt(FInt(75), rsi), under \in Lt(rsi, FInt(25))}
    ELSE {<<FALSE, FALSE>>}

\* ---------------------------------------------------------------- trend regression

RECURSIVE SumSq(_)
SumSq(s) == IF s = <<>> THEN 0 ELSE Head(s) * Head(s) + SumSq(Tail(s))

\* sum of x * y over x = 0 .. len - 1
RECURSIVE SumXY(_, _)
SumXY(s, x) == IF s = <<>> THEN 0 ELSE x * Head(s) + SumXY(Tail(s), x + 1)

\* scipy.stats.linregress(list(range(len(y))), y) for len(y) >= 2: slope,
\* intercept, the square of rvalue and the square of stderr.  rvalue is 0.0
\* when y is constant and stderr is 0.0 for two points; the means and the
\* covariances are exact floats when len(y) is a power of two, and rounded
\* otherwise
LinRegress(y) ==
    LET n == Len(y)
        e == IF PowerOfTwo(n) THEN 0 ELSE 1
        sx == (n * (n - 1)) \div 2
        sxx == ((n - 1) * n * (2 * n - 1)) \div 6
        sy == SumSeq(y)
        ssx == n * sxx - sx * sx
        ssxy == n * SumXY(y, 0) - sx * sy
        ssy == n * SumSq(y) - sy * sy
        slope == F(ssxy, ssx, e)
        r2 == IF ssy = 0 THEN FInt(0) ELSE FMul(F(ssxy, ssx, 1), F(ssxy, ssy, 1))
    IN  [slope |-> slope,
         intercept |-> FSub(F(sy, n, e), FMul(slope, F(sx, n, e))),
         r2 |-> r2,
         stderr2 |-> IF n = 2 THEN FInt(0)
                     ELSE FDiv(FMul(FSub(FInt(1), r2), F(ssy, ssx, 1)), FInt(n - 2))]

\* the statistics of lines 163-167 and 192-193: all zero below two samples
NoRegress == [slope |-> FInt(0), intercept |-> FInt(0), r2 |-> FInt(0), stderr2 |-> FInt(0)]

Regress(history) == IF Len(history) >= 2 THEN LinRegress(LastN(history, 15)) ELSE NoRegress

\* the square of statistics.stdev(s): the sample variance; the deviation of
\* a constant sample is exactly 0.0
Variance(s) ==
    LET n == Len(s)
        sy == SumSeq(s)
    IN  IF n * SumSq(s) = sy * sy THEN FInt(0) ELSE F(n * SumSq(s) - sy * sy, n * (n - 1), 1)

\* ---------------------------------------------------------------- quote model

\* avg_vbid / avg_vask of lines 147-155: mean of the last 7 samples
ShortAvg(history) ==
    LET pre_end == Len(history) - 1
    IN  FDiv(FInt(SumSeq(SubSeq(history, Max(0, pre_end - 6) + 1, pre_end + 1))),
             FInt(Max(1, Min(7, pre_end + 1))))

\* grad_bid / grad_ask of lines 159-161; v is the sample just appended
Grad(history, v) ==
    LET pre_end == Len(history) - 1
        start == Max(0, pre_end - 5)
    IN  FDiv(FDiv(FInt(v - Idx(history, start)), FInt(Min(Len(history), 5))),
             FInt(Max(Idx(history, start), 1)))

\* the float 0.8
PointEight == F(4, 5, 1)

\* the outcomes of abs(br) >= 0.8 (lines 169, 177), br given by its square
StrongTrend(reg) == Le(FMul(PointEight, PointEight), reg.r2)

\* check_bid of lines 169-175, trend being the outcome of abs(br) >= 0.8
CheckBid(history, v, rsi, trend) ==
    IF trend
    THEN FAdd(Regress(history).intercept, FMul(Regress(history).slope, FInt(Len(history))))
    ELSE IF rsi = FInt(-1)
         THEN FMul(ShortAvg(history), FAdd(FInt(1), Grad(history, v)))
         ELSE FMul(ShortAvg(history),
                   FAdd(FInt(1), FMul(Grad(history, v),
                        FAdd(FInt(1), FMul(FDiv(FSub(FInt(75), rsi), FInt(100)), PointEight)))))

\* check_ask of lines 177-183, trend being the outcome of abs(ar) >= 0.8
CheckAsk(history, v, rsi, trend) ==
    IF trend
    THEN FAdd(Regress(history).intercept, FMul(Regress(history).slope, FInt(Len(history))))
    ELSE IF rsi = FInt(-1)
         THEN FMul(ShortAvg(history), FAdd(FInt(1), Grad(history, v)))
         ELSE FMul(ShortAvg(history),
                   FAdd(FInt(1), FMul(Grad(history, v),
                        FAdd(FInt(1), FMul(FDiv(FSub(rsi, FInt(25)), FInt(100)), PointEight)))))

\* a variant that does not hold the bid target to the touch
NewBidPriceUnclamped(floored, touch_bid) == IF touch_bid /= 0 THEN Max(floored, 0) ELSE 0

\* new_bid_price of line 185, floored being int(check_bid // 100 * 100)
NewBidPrice(floored, touch_bid) ==
    IF touch_bid /= 0
    THEN Min(Max(floored, 0), touch_bid + TICK_SIZE_IN_CENTS)
    ELSE 0

\* new_ask_price of line 186, floored being int(check_ask // 100 * 100)
NewAskPrice(floored, touch_ask) ==
    IF touch_ask /= 0
    THEN Max(Max(floored, 0), touch_ask - TICK_SIZE_IN_CENTS)
    ELSE 0

\* the outcomes of new_bid_price
NewBidPrices(history, v, rsi, touch_bid) ==
    UNION {{NewBidPrice(floored, touch_bid) :
                floored \in TickFloor(CheckBid(history, v, rsi, trend))} :
           trend \in StrongTrend(Regress(history))}

\* the outcomes of new_ask_price
NewAskPrices(history, v, rsi, touch_ask) ==
    UNION {{NewAskPrice(floored, touch_ask) :
                floored \in TickFloor(CheckAsk(history, v, rsi, trend))} :
           trend \in StrongTrend(Regress(history))}

\* the outcomes of abs(mr) > 0.55 of line 195 (0.55 squared is 121/400)
MidTrend(mid) == Lt(F(121, 400, 1), Regress(mid).r2)

\* predict_mid of line 196
PredictMid(mid) == FAdd(Regress(mid).intercept, FMul(Regress(mid).slope, FInt(Len(mid))))

\* the outcomes of deviation_bid of lines 189-206, trend being the outcome of
\* abs(mr) > 0.55
DeviationBid(vbids, mid, new_bid_price, trend) ==
    IF Len(vbids) >= 2
    THEN IF trend
         THEN RootLe(Regress(mid).stderr2, FSub(FInt(new_bid_price), PredictMid(mid)))
         ELSE RootLe(Variance(LastN(vbids, 7)), FSub(FInt(new_bid_price), ShortAvg(vbids)))
    ELSE {FALSE}

\* the outcomes of deviation_ask of lines 189-206
DeviationAsk(vasks, mid, new_ask_price, trend) ==
    IF Len(vasks) >= 2
    THEN IF trend
         THEN RootLe(Regress(mid).stderr2, FSub(PredictMid(mid), FInt(new_ask_price)))
         ELSE RootLe(Variance(LastN(vasks, 7)), FSub(ShortAvg(vasks), FInt(new_ask_price)))
    ELSE {FALSE}

\* the outcomes of the band test of lines 208 and 212: target above
\* resting * (1 + grad) or below resting * (1 - grad)
OutOfBand(target, resting, grad) ==
    {above \/ below :
        above \in Lt(FMul(FInt(resting), FAdd(FInt(1), grad)), FInt(target)),
        below \in Lt(FInt(target), FMul(FInt(resting), FSub(FInt(1), grad)))}

\* ---------------------------------------------------------------- state

VARIABLES
    order_ids,        \* next value of itertools.count(1)
    bids, asks,       \* ids of the tracked buy / sell orders
    ask_id, ask_price, bid_id, bid_price, position,
    history_vbid, history_vask, history_mid,
    gain, loss,       \* RSI averages, Unseeded until the first computation
    bid_ordered, ask_ordered,
    sent,             \* commands sent to the gateway by the last handler
    quoted,           \* the targets, gradients and guards the last handler computed
    last,             \* the event the last handler was called with
    fault,            \* a handler has raised (ZeroDivisionError)
    sequence_number,  \* order-book updates delivered by the gateway
    fillable          \* gateway: lots it may still fill of each tracked order

trader == <<order_ids, bids, asks, ask_id, ask_price, bid_id, bid_price, position,
            history_vbid, history_vask, history_mid, gain, loss, bid_ordered, ask_ordered>>

orders == <<order_ids, bids, asks, ask_id, ask_price, bid_id, bid_price, position,
            bid_ordered, ask_ordered>>

series == <<history_vbid, history_vask, history_mid, gain, loss>>

vars == <<trader, sent, quoted, last, fault, sequence_number, fillable>>

\* ---------------------------------------------------------------- commands and events

NoBook == [instrument |-> ETF, ask_prices |-> <<0, 0, 0, 0, 0>>, ask_volumes |-> <<0, 0, 0, 0, 0>>,
           bid_prices |-> <<0, 0, 0, 0, 0>>, bid_volumes |-> <<0, 0, 0, 0, 0>>]

Event(kind, id, volume, remaining, book) ==
    [kind |-> kind, id |-> id, volume |-> volume, remaining |-> remaining, book |-> book]

\* send_insert_order(id, side, price, volume, lifespan)
InsertOrder(id, side, price, volume, lifespan) ==
    [cmd |-> "insert", id |-> id, side |-> side, price |-> price, volume |-> volume,
     lifespan |-> lifespan]

\* send_cancel_order(id)
CancelOrder(id) ==
    [cmd |-> "cancel", id |-> id, side |-> "-", price |-> 0, volume |-> 0, lifespan |-> "-"]

\* send_hedge_order(id, side, price, volume)
HedgeOrder(id, side, price, volume) ==
    [cmd |-> "hedge", id |-> id, side |-> side, price |-> price, volume |-> volume,
     lifespan |-> "-"]

\* the locals of a handler that computes no quote
NoQuote == [grad_bid |-> FInt(0), grad_ask |-> FInt(0), new_bid_price |-> 0, new_ask_price |-> 0,
            deviation_bid |-> FALSE, deviation_ask |-> FALSE,
            over_bought_rsi |-> FALSE, over_sold_rsi |-> FALSE]

\* ---------------------------------------------------------------- construction

Init ==
    /\ order_ids = 1
    /\ bids = {}
    /\ asks = {}
    /\ ask_id = 0 /\ ask_price = 0 /\ bid_id = 0 /\ bid_price = 0 /\ position = 0
    /\ history_vbid = <<>>
    /\ history_vask = <<>>
    /\ history_mid = <<>>
    /\ gain = Unseeded
    /\ loss = Unseeded
    /\ bid_ordered = 0
    /\ ask_ordered = 0
    /\ sent = <<>>
    /\ quoted = NoQuote
    /\ last = Event("init", 0, 0, 0, NoBook)
    /\ fault = FALSE
    /\ sequence_number = 0
    /\ fillable = <<>>

\* ---------------------------------------------------------------- order and inventory controller

\* the outcomes of the replace test of line 208
CancelBid(id, resting, new_bid_price, grad_bid) ==
    IF id /= 0 /\ new_bid_price /= 0 THEN OutOfBand(new_bid_price, resting, grad_bid) ELSE {FALSE}

\* the outcomes of the replace test of line 212, which compares the bid target
\* with the resting ask
CancelAsk(id, resting, new_bid_price, new_ask_price, grad_ask) ==
    IF id /= 0 /\ new_ask_price /= 0 THEN OutOfBand(new_bid_price, resting, grad_ask) ELSE {FALSE}

\* the insert test of line 218
InsertBid(id, new_bid_price, ordered, pos, deviation_bid, over_bought_rsi) ==
    /\ id = 0
    /\ new_bid_price /= 0
    /\ ordered + pos + LOT_SIZE < POSITION_LIMIT
    /\ (~deviation_bid \/ ~over_bought_rsi)

\* a variant that leaves the lot of the new order out of the test
InsertAskUncounted(id, new_ask_price, ordered, pos, deviation_ask, over_sold_rsi) ==
    /\ id = 0
    /\ new_ask_price /= 0
    /\ pos - ordered > (-1) * POSITION_LIMIT
    /\ (~deviation_ask \/ ~over_sold_rsi)

\* the insert test of line 226
InsertAsk(id, new_ask_price, ordered, pos, deviation_ask, over_sold_rsi) ==
    /\ id = 0
    /\ new_ask_price /= 0
    /\ pos - ordered - LOT_SIZE > (-1) * POSITION_LIMIT
    /\ (~deviation_ask \/ ~over_sold_rsi)

\* the pending volume a controller-initiated cancel leaves (lines 211, 215)
CancelReserve(ordered) == 10

\* lines 147-206: the outcomes of the targets, gradients and guards of one
\* update; vbids, vasks and mids are the three series after the append
Quote(book, vbids, vasks, mids, rsi) ==
    LET vbid == NegIdx(vbids, -1)
        vask == NegIdx(vasks, -1)
    IN  UNION {{[grad_bid |-> Grad(vbids, vbid),
                 grad_ask |-> Grad(vasks, vask),
                 new_bid_price |-> t[1],
                 new_ask_price |-> t[2],
                 deviation_bid |-> deviation_bid,
                 deviation_ask |-> deviation_ask,
                 over_bought_rsi |-> flags[1],
                 over_sold_rsi |-> flags[2]] :
                    deviation_bid \in DeviationBid(vbids, mids, t[1], t[3]),
                    deviation_ask \in DeviationAsk(vasks, mids, t[2], t[3]),
                    flags \in RsiFlags(mids, rsi)} :
               t \in NewBidPrices(vbids, vbid, rsi, Idx(book.bid_prices, 0))
                     \X NewAskPrices(vasks, vask, rsi, Idx(book.ask_prices, 0))
                     \X MidTrend(mids)}

\* lines 208-231: the outcomes of what the update cancels and inserts
Plan(q) ==
    {[cancel_bid |-> cancel_bid,
      cancel_ask |-> cancel_ask,
      bid_ordered1 |-> IF cancel_bid THEN CancelReserve(bid_ordered) ELSE bid_ordered,
      ask_ordered1 |-> IF cancel_ask THEN CancelReserve(ask_ordered) ELSE ask_ordered,
      insert_bid |-> InsertBid(IF cancel_bid THEN 0 ELSE bid_id, q.new_bid_price,
                               IF cancel_bid THEN CancelReserve(bid_ordered) ELSE bid_ordered,
                               position, q.deviation_bid, q.over_bought_rsi),
      insert_ask |-> InsertAsk(IF cancel_ask THEN 0 ELSE ask_id, q.new_ask_price,
                               IF cancel_ask THEN CancelReserve(ask_ordered) ELSE ask_ordered,
                               position, q.deviation_ask, q.over_sold_rsi)] :
        cancel_bid \in CancelBid(bid_id, bid_price, q.new_bid_price, q.grad_bid),
        cancel_ask \in CancelAsk(ask_id, ask_price, q.new_bid_price, q.new_ask_price, q.grad_ask)}

\* lines 208-231 carried out: q is the Quote and p the Plan of the update
Reconcile(q, p) ==
    LET new_bid_id == order_ids
        new_ask_id == IF p.insert_bid THEN order_ids + 1 ELSE order_ids
    IN  /\ bid_id' = IF p.insert_bid THEN new_bid_id ELSE IF p.cancel_bid THEN 0 ELSE bid_id
        /\ bid_price' = IF p.insert_bid THEN q.new_bid_price ELSE bid_price
        /\ bid_ordered' = IF p.insert_bid THEN p.bid_ordered1 + LOT_SIZE ELSE p.bid_ordered1
        /\ bids' = IF p.insert_bid THEN bids \cup {new_bid_id} ELSE bids
        /\ ask_id' = IF p.insert_ask THEN new_ask_id ELSE IF p.cancel_ask THEN 0 ELSE ask_id
        /\ ask_price' = IF p.insert_ask THEN q.new_ask_price ELSE ask_price
        /\ ask_ordered' = IF p.insert_ask THEN p.ask_ordered1 + LOT_SIZE ELSE p.ask_ordered1
        /\ asks' = IF p.insert_ask THEN asks \cup {new_ask_id} ELSE asks
        /\ order_ids' = order_ids + (IF p.insert_bid THEN 1 ELSE 0)
                                  + (IF p.insert_ask THEN 1 ELSE 0)
        /\ sent' = (IF p.cancel_bid THEN <<CancelOrder(bid_id)>> ELSE <<>>)
                   \o (IF p.cancel_ask THEN <<CancelOrder(ask_id)>> ELSE <<>>)
                   \o (IF p.insert_bid
                       THEN <<InsertOrder(new_bid_id, "BUY", q.new_bid_price, LOT_SIZE,
                                          "GOOD_FOR_DAY")>>
                       ELSE <<>>)
                   \o (IF p.insert_ask
                       THEN <<InsertOrder(new_ask_id, "SELL", q.new_ask_price, LOT_SIZE,
                                          "GOOD_FOR_DAY")>>
                       ELSE <<>>)
        /\ quoted' = q
        /\ fillable' = [id \in bids' \cup asks' |->
                          IF id \in bids \cup asks THEN fillable[id] ELSE LOT_SIZE]
        /\ UNCHANGED position

\* a variant that looks at the instrument alone
SkippedByInstrument(book) == book.instrument /= FUTURE

\* the tests of lines 90-91 send the update away
Skipped(book) == book.instrument /= FUTURE \/ Idx(book.bid_prices, 0) = 0

\* on_order_book_update_message; the sequence number is only logged
OnOrderBookUpdateMessage(book) ==
    /\ ~fault
    /\ last' = Event("book", 0, 0, 0, book)
    /\ sequence_number' = sequence_number + 1
    /\ IF Skipped(book)
       THEN /\ sent' = <<>>
            /\ quoted' = NoQuote
            /\ UNCHANGED <<trader, fault, fillable>>
       ELSE IF VwapFault(book)
       THEN /\ fault' = TRUE
            /\ sent' = <<>>
            /\ quoted' = NoQuote
            /\ UNCHANGED <<trader, fillable>>
       ELSE LET vmid == Vmid(book)
                vbids == Appended(history_vbid, Vbid(book))
                vasks == Appended(history_vask, Vask(book))
                mids == Appended(history_mid, vmid)
                new_gain == NewGain(mids, vmid, gain)
                new_loss == NewLoss(mids, vmid, gain, loss)
            IN  /\ history_vbid' = vbids
                /\ history_vask' = vasks
                /\ history_mid' = mids
                /\ gain' = new_gain
                /\ loss' = new_loss
                /\ IF RsiFault(mids, new_loss)
                   THEN /\ fault' = TRUE
                        /\ sent' = <<>>
                        /\ quoted' = NoQuote
                        /\ UNCHANGED <<orders, fillable>>
                   ELSE /\ fault' = FALSE
                        /\ \E q \in Quote(book, vbids, vasks, mids,
                                            Rsi(mids, new_gain, new_loss)) :
                               \E p \in Plan(q) : Reconcile(q, p)

\* a variant that hedges a whole lot whatever the fill
BidHedgeOfLot(id, volume) == HedgeOrder(id, "SELL", MIN_BID_NEAREST_TICK, LOT_SIZE)

\* the hedge of a filled buy order (line 245); Side.ASK is Side.SELL
BidHedge(id, volume) == HedgeOrder(id, "SELL", MIN_BID_NEAREST_TICK, volume)

\* a variant that hedges under the id of the order filled
AskHedgeUnderOrderId(id, volume) == HedgeOrder(id - 1, "BUY", MAX_ASK_NEAREST_TICK, volume)

\* a variant that hedges a sale with a sale
AskHedgeSelling(id, volume) == HedgeOrder(id, "SELL", MIN_BID_NEAREST_TICK, volume)

\* the hedge of a filled sell order (line 249); Side.BID is Side.BUY
AskHedge(id, volume) == HedgeOrder(id, "BUY", MAX_ASK_NEAREST_TICK, volume)

\* on_order_filled_message; the price is only logged
OnOrderFilledMessage(client_order_id, volume) ==
    /\ ~fault
    /\ last' = Event("fill", client_order_id, volume, 0, NoBook)
    /\ quoted' = NoQuote
    /\ IF client_order_id \in bids
       THEN /\ position' = position + volume
            /\ bid_ordered' = bid_ordered - volume
            /\ order_ids' = order_ids + 1
            /\ sent' = <<BidHedge(order_ids, volume)>>
            /\ UNCHANGED ask_ordered
       ELSE IF client_order_id \in asks
       THEN /\ position' = position - volume
            /\ ask_ordered' = ask_ordered - volume
            /\ order_ids' = order_ids + 1
            /\ sent' = <<AskHedge(order_ids, volume)>>
            /\ UNCHANGED bid_ordered
       ELSE /\ sent' = <<>>
            /\ UNCHANGED <<position, bid_ordered, ask_ordered, order_ids>>
    /\ fillable' = [id \in bids \cup asks |->
                      IF id = client_order_id THEN fillable[id] - volume ELSE fillable[id]]
    /\ UNCHANGED <<bids, asks, ask_id, ask_price, bid_id, bid_price, series, fault,
                   sequence_number>>

\* a variant that takes every status update for the last one of its order
StatusAlwaysFinal(client_order_id, remaining_volume) ==
    /\ bid_id' = IF client_order_id = bid_id THEN 0 ELSE bid_id
    /\ ask_id' = IF client_order_id /= bid_id /\ client_order_id = ask_id THEN 0 ELSE ask_id
    /\ bids' = bids \ {client_order_id}
    /\ asks' = asks \ {client_order_id}
    /\ fillable' = [id \in (bids \cup asks) \ {client_order_id} |-> fillable[id]]

\* a variant that frees the bid slot without comparing the id
StatusFreesBidSlot(client_order_id, remaining_volume) ==
    IF remaining_volume = 0
    THEN /\ bid_id' = 0
         /\ ask_id' = IF client_order_id = ask_id THEN 0 ELSE ask_id
         /\ bids' = bids \ {client_order_id}
         /\ asks' = asks \ {client_order_id}
         /\ fillable' = [id \in (bids \cup asks) \ {client_order_id} |-> fillable[id]]
    ELSE UNCHANGED <<bid_id, ask_id, bids, asks, fillable>>

\* a variant that untracks the order and leaves the slots as they are
StatusKeepsSlots(client_order_id, remaining_volume) ==
    IF remaining_volume = 0
    THEN /\ bids' = bids \ {client_order_id}
         /\ asks' = asks \ {client_order_id}
         /\ fillable' = [id \in (bids \cup asks) \ {client_order_id} |-> fillable[id]]
         /\ UNCHANGED <<bid_id, ask_id>>
    ELSE UNCHANGED <<bid_id, ask_id, bids, asks, fillable>>

\* the body of on_order_status_message; fill volume and fees are only logged
StatusUpdate(client_order_id, remaining_volume) ==
    IF remaining_volume = 0
    THEN /\ bid_id' = IF client_order_id = bid_id THEN 0 ELSE bid_id
         /\ ask_id' = IF client_order_id /= bid_id /\ client_order_id = ask_id THEN 0 ELSE ask_id
         /\ bids' = bids \ {client_order_id}
         /\ asks' = asks \ {client_order_id}
         /\ fillable' = [id \in (bids \cup asks) \ {client_order_id} |-> fillable[id]]
    ELSE UNCHANGED <<bid_id, ask_id, bids, asks, fillable>>

\* on_order_status_message
OnOrderStatusMessage(client_order_id, remaining_volume) ==
    /\ ~fault
    /\ last' = Event("status", client_order_id, 0, remaining_volume, NoBook)
    /\ StatusUpdate(client_order_id, remaining_volume)
    /\ sent' = <<>>
    /\ quoted' = NoQuote
    /\ UNCHANGED <<order_ids, ask_price, bid_price, position, bid_ordered, ask_ordered,
                   series, fault, sequence_number>>

\* a variant that knows the buy orders only
ErrorClosesBid(client_order_id) == client_order_id /= 0 /\ client_order_id \in bids

\* the test of line 66
ErrorClosesOrder(client_order_id) ==
    client_order_id /= 0 /\ (client_order_id \in bids \/ client_order_id \in asks)

\* on_error_message; the error text is only logged
OnErrorMessage(client_order_id) ==
    /\ ~fault
    /\ last' = Event("error", client_order_id, 0, 0, NoBook)
    /\ IF ErrorClosesOrder(client_order_id)
       THEN StatusUpdate(client_order_id, 0)
       ELSE UNCHANGED <<bid_id, ask_id, bids, asks, fillable>>
    /\ sent' = <<>>
    /\ quoted' = NoQuote
    /\ UNCHANGED <<order_ids, ask_price, bid_price, position, bid_ordered, ask_ordered,
                   series, fault, sequence_number>>

\* on_hedge_filled_message: logs only
OnHedgeFilledMessage(client_order_id, volume) ==
    /\ ~fault
    /\ last' = Event("hedge_filled", client_order_id, volume, 0, NoBook)
    /\ sent' = <<>>
    /\ quoted' = NoQuote
    /\ UNCHANGED <<trader, fault, sequence_number, fillable>>

\* on_trade_ticks_message: logs only
OnTradeTicksMessage(book) ==
    /\ ~fault
    /\ last' = Event("ticks", 0, 0, 0, book)
    /\ sent' = <<>>
    /\ quoted' = NoQuote
    /\ UNCHANGED <<trader, fault, sequence_number, fillable>>

\* ---------------------------------------------------------------- market gateway

\* ids the counter may hand out
MaxId == 4
\* order-book updates the gateway delivers
MaxUpdates == 2

\* ids the gateway reports on: 0, the ids handed out, and the next one, which no order has yet
Ids == 0 .. Min(order_ids, MaxId)

\* a book around the touch prices bid and ask with one tick between levels
Ladder(instrument, bid, ask, bid_volumes, ask_volumes) ==
    [instrument |-> instrument,
     ask_prices |-> <<ask, ask + 100, ask + 200, ask + 300, ask + 400>>,
     ask_volumes |-> ask_volumes,
     bid_prices |-> <<bid, bid - 100, bid - 200, bid - 300, bid - 400>>,
     bid_volumes |-> bid_volumes]

Even == <<5, 5, 5, 5, 5>>

\* a closed market: no bids
ClosedBook == [instrument |-> FUTURE,
               ask_prices |-> <<1100, 1200, 1300, 1400, 1500>>, ask_volumes |-> Even,
               bid_prices |-> <<0, 0, 0, 0, 0>>, bid_volumes |-> <<0, 0, 0, 0, 0>>]

\* a touch bid with nothing behind it
ThinBook == [instrument |-> FUTURE,
             ask_prices |-> <<1100, 1200, 1300, 1400, 1500>>, ask_volumes |-> Even,
             bid_prices |-> <<1000, 0, 0, 0, 0>>, bid_volumes |-> <<5, 0, 0, 0, 0>>]

Books == {Ladder(FUTURE, 1000, 1100, Even, Even),
          Ladder(FUTURE, 900, 1000, Even, Even),
          Ladder(ETF, 1000, 1100, Even, Even),
          ClosedBook, ThinBook}

\* volumes of one fill
FillVolumes == {5, 10}

\* remaining volumes of a status update
StatusRemaining == {0, 5}

\* the gateway fills a tracked order for at most the lots it has left of it
MayFill(id, volume) == id \in bids \cup asks => volume <= fillable[id]

BookUpdate == \E book \in Books :
    /\ sequence_number < MaxUpdates
    /\ OnOrderBookUpdateMessage(book)
    /\ order_ids' <= MaxId + 1

OrderFilled == \E id \in Ids, volume \in FillVolumes :
    /\ MayFill(id, volume)
    /\ OnOrderFilledMessage(id, volume)
    /\ order_ids' <= MaxId + 1

OrderStatus == \E id \in Ids, remaining \in StatusRemaining : OnOrderStatusMessage(id, remaining)

Error == \E id \in Ids : OnErrorMessage(id)

HedgeFilled == \E id \in Ids : OnHedgeFilledMessage(id, LOT_SIZE)

\* the levels of a trade-tick report
Ticks == Ladder(ETF, 1000, 1100, Even, Even)

TradeTicks == OnTradeTicksMessage(Ticks)

Next == BookUpdate \/ OrderFilled \/ OrderStatus \/ Error \/ HedgeFilled \/ TradeTicks

Spec == Init /\ [][Next]_vars

\* ---------------------------------------------------------------- a trading session

\* order-book updates of a session
SessionUpdates == 11
\* ids the counter may hand out in a session
SessionIds == 24

SessionBooks == {Ladder(FUTURE, 1000, 1100, Even, Even),
                 Ladder(FUTURE, 900, 1000, Even, Even)}

\* the tracked orders of a side the gateway has not filled
Open(side) == {id \in side : fillable[id] = LOT_SIZE}

\* the gateway fills the orders of a side oldest first
Oldest(side) == {id \in Open(side) : \A other \in Open(side) : id <= other}

SessionBookUpdate == \E book \in SessionBooks :
    /\ sequence_number < SessionUpdates
    /\ OnOrderBookUpdateMessage(book)
    /\ order_ids' <= SessionIds + 1

\* the execution feed lags the market data: the fills of the session arrive after its book
\* updates, in full lots, while the acknowledgements of the cancels are still under way
SessionFill == \E id \in Oldest(bids) \cup Oldest(asks) :
    /\ sequence_number = SessionUpdates
    /\ OnOrderFilledMessage(id, LOT_SIZE)
    /\ order_ids' <= SessionIds + 1

SessionNext == SessionBookUpdate \/ SessionFill

SessionSpec == Init /\ [][SessionNext]_vars

\* ---------------------------------------------------------------- a quoting session

\* order-book updates of a quoting session
QuoteUpdates == 3
\* ids the counter may hand out in a quoting session
QuoteIds == 8

\* a book whose best ask has been taken out
NoTouchAsk == [instrument |-> FUTURE,
               ask_prices |-> <<0, 1200, 1300, 1400, 1500>>, ask_volumes |-> <<0, 5, 5, 5, 5>>,
               bid_prices |-> <<1000, 900, 800, 700, 600>>, bid_volumes |-> Even]

\* a steady market, a market five ticks lower and a one-sided market
QuoteBooks == {Ladder(FUTURE, 1000, 1100, Even, Even),
               Ladder(FUTURE, 500, 600, Even, Even),
               NoTouchAsk}

QuoteBookUpdate == \E book \in QuoteBooks :
    /\ sequence_number < QuoteUpdates
    /\ OnOrderBookUpdateMessage(book)
    /\ order_ids' <= QuoteIds + 1

\* the gateway reports that a tracked order is done
QuoteStatus == \E id \in bids \cup asks : OnOrderStatusMessage(id, 0)

QuoteNext == QuoteBookUpdate \/ QuoteStatus

QuoteSpec == Init /\ [][QuoteNext]_vars

\* ---------------------------------------------------------------- a session towards the limit

\* order-book updates of a session in a steady market
LimitUpdates == 10
\* ids the counter may hand out in it
LimitIds == 28

\* orders filled in full, whose final status is on its way
Done == {id \in bids \cup asks : fillable[id] = 0}

LimitBookUpdate ==
    /\ sequence_number < LimitUpdates
    /\ Done = {}
    /\ OnOrderBookUpdateMessage(Ladder(FUTURE, 1000, 1100, Even, Even))
    /\ order_ids' <= LimitIds + 1

\* between two order-book updates the gateway fills at most one order, the oldest of a side
LimitFill == \E id \in Oldest(bids) \cup Oldest(asks) :
    /\ last.kind = "book"
    /\ OnOrderFilledMessage(id, LOT_SIZE)
    /\ order_ids' <= LimitIds + 1

\* the final status of an order follows its last fill
LimitStatus == \E id \in Done : OnOrderStatusMessage(id, 0)

LimitNext == LimitBookUpdate \/ LimitFill \/ LimitStatus

LimitSpec == Init /\ [][LimitNext]_vars

\* ---------------------------------------------------------------- a session past the buffer

\* order-book updates of a session that fills the series
HistoryUpdates == 17
\* ids the counter may hand out in it
HistoryIds == 40

\* the market moves between two prices and settles at the lower one once RsiPeriod
\* updates have gone out
HistoryBooks(k) ==
    IF k < RsiPeriod
    THEN {Ladder(FUTURE, 1000, 1100, Even, Even), Ladder(FUTURE, 900, 1000, Even, Even)}
    ELSE {Ladder(FUTURE, 900, 1000, Even, Even)}

HistoryBookUpdate == \E book \in HistoryBooks(sequence_number) :
    /\ sequence_number < HistoryUpdates
    /\ OnOrderBookUpdateMessage(book)
    /\ order_ids' <= HistoryIds + 1

HistoryNext == HistoryBookUpdate

HistorySpec == Init /\ [][HistoryNext]_vars

\* ---------------------------------------------------------------- properties

\* C1: after any sequence of events the net position stays within
\* [-POSITION_LIMIT, +POSITION_LIMIT].
PositionWithinLimit == position \in -POSITION_LIMIT .. POSITION_LIMIT

\* C2: at all times each side's tracking set holds at most one order id.
OneTrackedOrderPerSide == Cardinality(bids) <= 1 /\ Cardinality(asks) <= 1

\* C3: a fill of volume v of a tracked buy order adds v to the position, takes v from the
\* bid pending volume and sends exactly one command, a hedge SELL of v at
\* MIN_BID_NEAREST_TICK; a fill of a tracked sell order takes v from the position and from
\* the ask pending volume and sends exactly one command, a hedge BUY of v at
\* MAX_ASK_NEAREST_TICK; the other side's pending volume, both id slots and both tracking
\* sets are unchanged.
FillHedgedOnce ==
    [][last'.kind = "fill" =>
         LET v == last'.volume
             hedge == sent'[1]
         IN  /\ last'.id \in bids =>
                    /\ position' = position + v
                    /\ bid_ordered' = bid_ordered - v
                    /\ Len(sent') = 1
                    /\ hedge.cmd = "hedge" /\ hedge.side = "SELL" /\ hedge.volume = v
                    /\ hedge.price = MIN_BID_NEAREST_TICK
                    /\ UNCHANGED <<ask_ordered, bid_id, ask_id, bids, asks>>
             /\ last'.id \in asks =>
                    /\ position' = position - v
                    /\ ask_ordered' = ask_ordered - v
                    /\ Len(sent') = 1
                    /\ hedge.cmd = "hedge" /\ hedge.side = "BUY" /\ hedge.volume = v
                    /\ hedge.price = MAX_ASK_NEAREST_TICK
                    /\ UNCHANGED <<bid_ordered, bid_id, ask_id, bids, asks>>]_vars

\* a buy order has been filled in part and hedged
FillHedgedOnceReached ==
    /\ last.kind = "fill" /\ last.volume = 5 /\ last.id \in bids
    /\ position = 5 /\ bid_ordered = 5
    /\ Len(sent) = 1 /\ sent[1].cmd = "hedge"

\* C4: in every state in which a side has no tracked order id, that side's pending volume
\* counter is 0.
IdleSideReservesNothing ==
    /\ bids = {} => bid_ordered = 0
    /\ asks = {} => ask_ordered = 0

\* what a status update with remaining volume 0 for the order id does to the trader
Closes(id) ==
    /\ bids' = bids \ {id}
    /\ asks' = asks \ {id}
    /\ bid_id' = IF bid_id = id THEN 0 ELSE bid_id
    /\ ask_id' = IF ask_id = id THEN 0 ELSE ask_id
    /\ UNCHANGED <<order_ids, ask_price, bid_price, position, bid_ordered, ask_ordered, series>>

\* C5: an error event whose id is nonzero and tracked leaves the trader as a status update
\* with remaining volume 0 for that id would: the id is in neither set and a slot that held
\* it is 0; an error event with id 0 or an untracked id changes no state; no command is sent.
ErrorIsFinalStatus ==
    [][last'.kind = "error" =>
         /\ sent' = <<>>
         /\ IF last'.id /= 0 /\ last'.id \in bids \cup asks
            THEN Closes(last'.id)
            ELSE UNCHANGED trader]_vars

\* an error has closed the resting sell order
ErrorIsFinalStatusReached ==
    /\ last.kind = "error" /\ last.id /= 0 /\ last.id \notin bids \cup asks
    /\ ask_id = 0 /\ ask_ordered = LOT_SIZE /\ position = 0
    /\ bid_id /= 0

\* C6: a status update with remaining volume 0 for a tracked id leaves the id in neither
\* set and the slot that held it at 0, and a slot holding another id, the position and both
\* pending volumes unchanged; a status update with remaining volume above 0 changes nothing.
FinalStatusUntracks ==
    [][last'.kind = "status" =>
         IF last'.remaining = 0
         THEN last'.id \in bids \cup asks => Closes(last'.id)
         ELSE UNCHANGED trader /\ sent' = <<>>]_vars

\* a final status has untracked the resting buy order, the sell order is still resting
FinalStatusUntracksReached ==
    /\ last.kind = "status" /\ last.remaining = 0 /\ last.id /= 0
    /\ bid_id = 0 /\ bids = {} /\ bid_ordered = LOT_SIZE /\ position = 0
    /\ ask_id /= 0 /\ ask_id \in asks

\* C7: fill, status and error events that reference an untracked id change neither the
\* position, the pending volumes, the id slots, the tracking sets nor the id counter, and
\* send no command.
UntrackedIdIgnored ==
    [][last'.kind \in {"fill", "status", "error"} /\ last'.id \notin bids \cup asks =>
         /\ UNCHANGED <<position, bid_ordered, ask_ordered, bid_id, ask_id, bids, asks, order_ids>>
         /\ sent' = <<>>]_vars

\* a fill came for an id that is not tracked while both sides have an order resting
UntrackedIdIgnoredReached ==
    /\ last.kind = "fill" /\ last.id /= 0 /\ last.id \notin bids \cup asks
    /\ bid_id \in bids /\ ask_id \in asks
    /\ sent = <<>>

\* C8: no order-book update faults the handler: after each the three series have the same
\* length and the RSI averages are both unseeded or both seeded.
NeverFaults ==
    /\ ~fault
    /\ Len(history_vbid) = Len(history_mid) /\ Len(history_vask) = Len(history_mid)
    /\ gain = Unseeded <=> loss = Unseeded

\* Wilder's seed: the sum of the gains (sign 1) or losses (sign -1) of the one-step
\* deltas mid[k] - mid[k-1] for k in from .. Len(mid)
RECURSIVE WilderTotal(_, _, _)
WilderTotal(mid, from, sign) ==
    IF from > Len(mid) THEN 0
    ELSE Max(sign * (mid[from] - mid[from - 1]), 0) + WilderTotal(mid, from + 1, sign)

\* C9: at the first RSI computation the average gain is one tenth of the sum of the positive
\* one-step deltas over the preceding 10 transitions and the average loss one tenth of the
\* sum of the absolute values of the negative ones.
SeedIsWilder ==
    Len(history_mid) = RsiPeriod + 1 /\ gain /= Unseeded =>
        /\ Same(gain, FDiv(FInt(WilderTotal(history_mid, 2, 1)), FInt(RsiPeriod)))
        /\ Same(loss, FDiv(FInt(WilderTotal(history_mid, 2, -1)), FInt(RsiPeriod)))

\* C10: an order-book update with a zero touch bid or of another instrument appends no
\* sample, leaves the RSI state, the position, the pending volumes, the id slots and the
\* tracking sets unchanged and sends no command.
SkippedUpdateInert ==
    [][last'.kind = "book" /\ (last'.book.instrument /= FUTURE \/ last'.book.bid_prices[1] = 0) =>
         /\ UNCHANGED trader
         /\ sent' = <<>>
         /\ fault' = fault]_vars

\* an update with a zero touch bid came after an update that was quoted on
SkippedUpdateInertReached ==
    /\ last.kind = "book" /\ last.book.instrument = FUTURE /\ last.book.bid_prices[1] = 0
    /\ Len(history_mid) = 1 /\ bid_id /= 0 /\ ask_id /= 0
    /\ sent = <<>>

\* the insert commands of the last handler
Inserts == {sent[i] : i \in {j \in 1 .. Len(sent) : sent[j].cmd = "insert"}}

\* the last handler was an order-book update that went through to the order decisions
Quoted == last.kind = "book" /\ ~Skipped(last.book) /\ ~fault

\* C11: every insert command carries a positive multiple of the tick size; a buy insert is
\* priced at most one tick above the touch bid of the update, a sell insert at least one
\* tick below its touch ask, and a side whose touch price is zero receives no insert.
InsertPriceValid ==
    last.kind = "book" =>
        \A c \in Inserts :
            /\ c.price > 0
            /\ c.price % TICK_SIZE_IN_CENTS = 0
            /\ c.side = "BUY" =>
                   /\ Idx(last.book.bid_prices, 0) /= 0
                   /\ c.price <= Idx(last.book.bid_prices, 0) + TICK_SIZE_IN_CENTS
            /\ c.side = "SELL" =>
                   /\ Idx(last.book.ask_prices, 0) /= 0
                   /\ c.price >= Idx(last.book.ask_prices, 0) - TICK_SIZE_IN_CENTS

\* a buy order has been inserted one tick above the touch bid, where the target was held
InsertPriceValidReached ==
    /\ Quoted
    /\ \E c \in Inserts :
           c.side = "BUY" /\ c.price = Idx(last.book.bid_prices, 0) + TICK_SIZE_IN_CENTS

\* C12: a buy insert is issued only when position + bid pending volume + LOT_SIZE does not
\* exceed POSITION_LIMIT and a sell insert only when position - ask pending volume -
\* LOT_SIZE is not below -POSITION_LIMIT, the pending volume being the one before the
\* insert adds its own lot; every insert is for LOT_SIZE lots, good for the day.
InsertWithinLimit ==
    last.kind = "book" =>
        \A c \in Inserts :
            /\ c.volume = LOT_SIZE
            /\ c.lifespan = "GOOD_FOR_DAY"
            /\ c.side = "BUY" =>
                   position + (bid_ordered - LOT_SIZE) + LOT_SIZE <= POSITION_LIMIT
            /\ c.side = "SELL" =>
                   position - (ask_ordered - LOT_SIZE) - LOT_SIZE >= (-1) * POSITION_LIMIT

\* a sell order has been inserted while one more lot sold would still be within the limit
\* and two would not
InsertWithinLimitReached ==
    /\ Quoted
    /\ \E c \in Inserts : c.side = "SELL"
    /\ position - (ask_ordered - LOT_SIZE) - LOT_SIZE >= (-1) * POSITION_LIMIT
    /\ position - (ask_ordered - LOT_SIZE) - 2 * LOT_SIZE < (-1) * POSITION_LIMIT

\* the commands of the last handler that carry a new id
Issued(commands) == {i \in 1 .. Len(commands) : commands[i].cmd \in {"insert", "hedge"}}

\* C13: every id carried by an insert or a hedge command is strictly greater than every id
\* issued before it: the ids of one handler are not below the counter it started with,
\* increase in the order of sending and lie below the counter it leaves, which never
\* goes back.
IdsIncrease ==
    [][/\ order_ids' >= order_ids
       /\ \A i \in Issued(sent') :
              /\ sent'[i].id >= order_ids
              /\ sent'[i].id < order_ids'
              /\ \A j \in Issued(sent') : j < i => sent'[j].id < sent'[i].id]_vars

\* a hedge follows two inserts of one update and carries the third id
IdsIncreaseReached ==
    /\ last.kind = "fill" /\ Len(sent) = 1 /\ sent[1].cmd = "hedge" /\ sent[1].id = 3
    /\ bids = {1} /\ asks = {2}
    /\ order_ids = 4

\* the step is an order-book update that goes through to the order decisions
QuotedStep == last'.kind = "book" /\ ~Skipped(last'.book) /\ ~fault'

\* the step sends a cancel for the order id
Cancels(id) == id /= 0 /\ \E i \in 1 .. Len(sent') : sent'[i] = CancelOrder(id)

\* C14: on an order-book update the Working sell order is cancelled if and only if the new
\* ask target is nonzero and lies above askResting * (1 + gradAsk) or below
\* askResting * (1 - gradAsk), and the Working buy order if and only if the new bid target
\* is nonzero and lies outside the same band around the resting bid.
ReplaceKeyedToOwnTarget ==
    [][QuotedStep =>
         /\ Cancels(ask_id) \in
                (IF ask_id /= 0 /\ quoted'.new_ask_price /= 0
                 THEN OutOfBand(quoted'.new_ask_price, ask_price, quoted'.grad_ask)
                 ELSE {FALSE})
         /\ Cancels(bid_id) \in
                (IF bid_id /= 0 /\ quoted'.new_bid_price /= 0
                 THEN OutOfBand(quoted'.new_bid_price, bid_price, quoted'.grad_bid)
                 ELSE {FALSE})]_vars

\* C15: if a side is Working and the new target of that side equals its resting price, the
\* update sends no cancel for that side's order, whatever the sign of the gradient.
MatchingOrderLeftAlone ==
    [][QuotedStep =>
         /\ (ask_id /= 0 /\ quoted'.new_ask_price = ask_price) => ~Cancels(ask_id)
         /\ (bid_id /= 0 /\ quoted'.new_bid_price = bid_price) => ~Cancels(bid_id)]_vars

\* C16: in an order-book update in which the bid deviation flag holds no buy order is
\* inserted, and in one in which the ask deviation flag holds no sell order is inserted.
DeviationVetoes ==
    Quoted =>
        /\ quoted.deviation_bid => \A c \in Inserts : c.side /= "BUY"
        /\ quoted.deviation_ask => \A c \in Inserts : c.side /= "SELL"

\* what a valid update makes of a series: the sample is appended and, once HistoryCap
\* samples are held, the oldest one is dropped
Shifted(history, sample) ==
    IF Len(history) < HistoryCap THEN Append(history, sample)
    ELSE Append(Tail(history), sample)

SlotsAgreeWithSets ==
    /\ bid_id /= 0 => bid_id \in bids
    /\ ask_id /= 0 => ask_id \in asks
    /\ bid_id /= 0 => bid_id /= ask_id
    /\ bids \cap asks = {}

\* both slots are taken while an order cancelled earlier is still tracked
SlotsAgreeWithSetsReached ==
    /\ bid_id /= 0 /\ ask_id /= 0
    /\ Cardinality(asks) = 2
    /\ last.kind = "status" /\ last.remaining = 0

\* C19: the pending volume counters bid_ordered and ask_ordered are never negative.
PendingNeverNegative == bid_ordered >= 0 /\ ask_ordered >= 0

\* the volume the hedge commands sell, less the volume they buy
HedgedVolume(commands) ==
    SumSeq([i \in 1 .. Len(commands) |->
               IF commands[i].cmd /= "hedge" THEN 0
               ELSE IF commands[i].side = "SELL" THEN commands[i].volume
               ELSE (-1) * commands[i].volume])

\* C20: the position equals the volume of the hedge SELL commands less the volume of the
\* hedge BUY commands issued so far: it starts at zero with no hedge sent, and every step
\* changes it by the net volume the hedge commands of that step sell, a hedge moving it by
\* its whole volume.
PositionHedgedByCommand ==
    [][/\ position' - position = HedgedVolume(sent')
       /\ \A i \in 1 .. Len(sent') :
              sent'[i].cmd = "hedge" =>
                  /\ Len(sent') = 1
                  /\ sent'[i].volume > 0]_vars

\* a buy order has been filled in part and hedged by a sale, after sales of 10 lots
PositionHedgedByCommandReached ==
    /\ last.kind = "fill" /\ Len(sent) = 1 /\ sent[1].cmd = "hedge" /\ sent[1].side = "SELL"
    /\ position = -5 /\ ask_ordered = 0 /\ bid_ordered = 5

====
